---- MODULE Spec2Model ----
(***************************************************************************)
(* Mood-journal backend: the trial/premium access gate, the journal and    *)
(* status endpoints, the Paystack payment flow and the emotion classifier  *)
(* adapter (backend/app.py, backend/database.py,                           *)
(* backend/sentiment_analyzer.py).                                         *)
(*                                                                         *)
(* Time is counted in whole days: NOW() and datetime.utcnow() are the      *)
(* clock `now`, DATEDIFF is a difference of days.  SQL NULL is Null.       *)
(* MySQL BOOLEAN columns and Python truth values are the integers 0 and 1. *)
(* Classifier scores are counted in tenths (0.5 is 5, 0.1 is 1).           *)
(* The tables carry the columns the handlers' queries name.                *)
(***************************************************************************)
EXTENDS Integers, Sequences, FiniteSets, TLC

\* ---------------------------------------------------------------- bounds
MaxPayments == 1
MaxEntries == 1
MaxPairs == 2
MaxRows == 3
MaxListed == 52

\* ------------------------------------------------------ program constants
TrialDays == 14
TokenDays == 14
MonthlyDays == 30
YearlyDays == 365
PREMIUM_PRICE_MONTHLY == 299900
PREMIUM_PRICE_YEARLY == 2999900
EntriesLimit == 50
SummaryLimit == 30
DefaultHappiness == 5
DefaultOther == 1
DefaultConfidence == 5
max_retries == 3
connect_max_retries == 3

Null == -1

\* SQL NULL in a text column, None as a key of a Python dict
NullText == "NULL"

\* ------------------------------------------------------------ input sets
Emails == {"", "a@x", "b@x"}
\* the (username, email) pairs of the register requests: two distinct
\* accounts, a second username for the first email, and a missing email
Registrations == {<<"ann", "a@x">>, <<"bob", "b@x">>, <<"bob", "a@x">>, <<"ann", "">>}
PlanInputs == {"monthly", "yearly", "weekly"}
References == 1..MaxPayments
NoReference == 0
\* the days on which requests arrive
Instants == {0, 14, 15}
GatewayStatuses == {"success", "failed", "abandoned"}

VARIABLES
    now,              \* the clock, in days
    users,            \* table users
    tokens,           \* the newest access token of each user: [user_id, issued]
    journal_entries,  \* table journal_entries
    mood_analysis,    \* table mood_analysis
    payments,         \* table payments
    gateway,          \* the transactions the payment gateway holds
    last,             \* the last completed request and its response
    ip,               \* an initialize_payment request in progress
    vp,               \* a verify_payment request in progress
    ce,               \* a create_entry request in progress
    db                \* the Database object: its connection and the wrapped call in progress

vars == <<now, users, tokens, journal_entries, mood_analysis, payments,
          gateway, last, ip, vp, ce, db>>

\* ------------------------------------------------ the schema of init_database
\* CREATE TABLE users
UsersColumns ==
    {"id", "username", "email", "password_hash", "created_at", "trial_start_date",
     "is_premium", "premium_since", "premium_until", "paystack_customer_code",
     "paystack_authorization_code", "last_payment_date"}

\* CREATE TABLE payments
PaymentsColumns ==
    {"id", "user_id", "amount", "currency", "reference", "status",
     "payment_method", "payment_date", "created_at", "updated_at"}

\* the columns the statements of the gate and of the payment flow name
GateColumns == {"trial_start_date", "is_premium", "premium_expires_at", "id"}

InsertPaymentColumns == {"user_id", "reference", "amount", "status", "plan_type"}

UpdatePaymentColumns ==
    {"status", "verified_at", "amount", "paystack_reference", "reference", "user_id"}

UpdateUserColumns == {"is_premium", "premium_since", "premium_until", "id"}

\* MySQL runs a statement only if the table has every column it names
\* (error 1054, Unknown column, otherwise)
KnownColumns(columns, table) == columns \subseteq table

\* ------------------------------------------------------------ SQL helpers
DATEDIFF(a, b) == a - b

Max_Second(a, b) == b

Max(a, b) == IF a >= b THEN a ELSE b

Min(a, b) == IF a <= b THEN a ELSE b

NextId(table) ==
    IF table = {} THEN 1
    ELSE (CHOOSE i \in {r.id : r \in table} : \A r \in table : r.id <= i) + 1

Truthy(v) == v # 0

\* ------------------------------------------------------- Database methods
get_user_by_email(email) == {u \in users : u.email = email}

get_user_by_id(user_id) == {u \in users : u.id = user_id}

\* INSERT INTO users (...) VALUES (..., NOW()); the other columns take their
\* defaults.  username is UNIQUE: a duplicate raises.
create_user_row(username, email, password_hash) ==
    [id |-> NextId(users), username |-> username, email |-> email,
     password_hash |-> password_hash,
     trial_start_date |-> now, is_premium |-> 0,
     premium_since |-> Null, premium_until |-> Null]

check_user_trial_status_Lapsing(user_id) ==
    LET result == {u \in users : u.id = user_id}
    IN  IF result # {}
        THEN LET user_data == CHOOSE u \in result : TRUE
                 days_since_trial == DATEDIFF(now, user_data.trial_start_date)
             IN  IF days_since_trial <= TrialDays THEN 1
                 ELSE IF user_data.is_premium = 1 /\ now <= user_data.premium_until
                 THEN 1 ELSE 0
        ELSE 0

check_user_trial_status_Strict(user_id) ==
    LET result == {u \in users : u.id = user_id}
    IN  IF result # {}
        THEN LET user_data == CHOOSE u \in result : TRUE
                 days_since_trial == DATEDIFF(now, user_data.trial_start_date)
             IN  IF days_since_trial < TrialDays THEN 1 ELSE user_data.is_premium
        ELSE 0

\* `days_since_trial <= 14 or is_premium`: True, or else the value of is_premium
check_user_trial_status(user_id) ==
    LET result == {u \in users : u.id = user_id}
    IN  IF result # {}
        THEN LET user_data == CHOOSE u \in result : TRUE
                 days_since_trial == DATEDIFF(now, user_data.trial_start_date)
                 is_premium == user_data.is_premium
             IN  IF days_since_trial <= TrialDays THEN 1 ELSE is_premium
        ELSE 0

\* ----------------------------------------------------------- access tokens
\* create_access_token(identity=user_id), valid for JWT_ACCESS_TOKEN_EXPIRES;
\* a newer token of the same user outlives the older ones, so one is kept
IssueToken(user_id) ==
    {t \in tokens : t.user_id # user_id} \cup {[user_id |-> user_id, issued |-> now]}

\* jwt_required: the request carries a token that has not expired
HasToken(user_id) ==
    \E t \in tokens : t.user_id = user_id /\ now - t.issued < TokenDays

\* ------------------------------------------------ classifier adapter
\* What requests.post gives back: a transport error (exception), or a status
\* code and a body.  A body is text that is no JSON ("invalid"), a JSON
\* object ("dict") or a JSON list of items; an item is a list of
\* {label, score} pairs or a non-empty JSON object.
Labels == {"joy", "HAPPINESS", "sadness", "Anger", "fear", "surprise", "disgust", "neutral"}
Scores == {0, 3, 9}

Pair(l, s) == [label |-> l, score |-> s]

PairSeqs ==
    UNION {[1..n -> {Pair(l, s) : l \in Labels, s \in Scores}] : n \in 0..MaxPairs}

Item(t, ps) == [type |-> t, pairs |-> ps]

Body(t, its) == [type |-> t, items |-> its]

Response(tr, code, body) == [transport |-> tr, status_code |-> code, json |-> body]

WellFormed(ps) == Response("ok", 200, Body("list", <<Item("list", ps)>>))

ClassifierResponses ==
    {Response("error", 0, Body("invalid", <<>>))}
    \cup {Response("ok", code, Body(t, <<>>)) :
              code \in {200, 503}, t \in {"invalid", "dict", "list"}}
    \cup {Response("ok", code, Body("list", <<Item("dict", <<>>)>>)) : code \in {200, 503}}
    \cup {WellFormed(ps) : ps \in PairSeqs}

Lower_Identity(label) == label

\* label.lower()
Lower(label) ==
    CASE label = "HAPPINESS" -> "happiness"
      [] label = "Anger" -> "anger"
      [] OTHER -> label

PyNone == [type |-> "None"]

_get_default_sentiment ==
    [type |-> "dict",
     happiness |-> DefaultHappiness, sadness |-> DefaultOther,
     anger |-> DefaultOther, fear |-> DefaultOther,
     surprise |-> DefaultOther, disgust |-> DefaultOther,
     overall_sentiment |-> "neutral", confidence |-> DefaultConfidence]

\* emotion_scores is a dict: a channel that was never set is Null here and
\* takes setdefault's 0 at the end
Channel(label) ==
    CASE label \in {"joy", "happiness"} -> "happiness"
      [] label = "sadness" -> "sadness"
      [] label = "anger" -> "anger"
      [] label = "fear" -> "fear"
      [] label = "surprise" -> "surprise"
      [] label = "disgust" -> "disgust"
      [] OTHER -> "none"

Polarity(label) ==
    IF label \in {"joy", "happiness"} THEN "positive"
    ELSE IF label \in {"sadness", "fear", "anger", "disgust"} THEN "negative"
    ELSE "neutral"

EmptyScores ==
    [happiness |-> Null, sadness |-> Null, anger |-> Null,
     fear |-> Null, surprise |-> Null, disgust |-> Null]

RECURSIVE ScanEmotions_LastMax(_, _, _, _, _)
ScanEmotions_LastMax(emotions, i, emotion_scores, overall_sentiment, max_score) ==
    IF i > Len(emotions)
    THEN [scores |-> emotion_scores, overall_sentiment |-> overall_sentiment,
          max_score |-> max_score]
    ELSE LET label == Lower(emotions[i].label)
             score == emotions[i].score
             ch == Channel(label)
             scores2 == IF ch = "none" THEN emotion_scores
                        ELSE [emotion_scores EXCEPT ![ch] = score]
         IN  IF score >= max_score
             THEN ScanEmotions_LastMax(emotions, i + 1, scores2, Polarity(label), score)
             ELSE ScanEmotions_LastMax(emotions, i + 1, scores2, overall_sentiment,
                                       max_score)

\* the loop `for emotion in emotions`, from pair i on
RECURSIVE ScanEmotions(_, _, _, _, _)
ScanEmotions(emotions, i, emotion_scores, overall_sentiment, max_score) ==
    IF i > Len(emotions)
    THEN [scores |-> emotion_scores, overall_sentiment |-> overall_sentiment,
          max_score |-> max_score]
    ELSE LET label == Lower(emotions[i].label)
             score == emotions[i].score
             ch == Channel(label)
             scores2 == IF ch = "none" THEN emotion_scores
                        ELSE [emotion_scores EXCEPT ![ch] = score]
         IN  IF score > max_score
             THEN ScanEmotions(emotions, i + 1, scores2, Polarity(label), score)
             ELSE ScanEmotions(emotions, i + 1, scores2, overall_sentiment, max_score)

SetDefault(v) == IF v = Null THEN 0 ELSE v

\* requests.post raising, response.json() raising on a body that is no JSON
\* and iterating an item that is no list of pairs all end in the except
\* branch; a 200 whose JSON is no non-empty list falls out of the if with no
\* return statement, which is Python's None
analyze_emotion(response) ==
    IF response.transport = "error" THEN _get_default_sentiment
    ELSE IF response.status_code = 200
    THEN IF response.json.type = "invalid" THEN _get_default_sentiment
         ELSE IF response.json.type = "list" /\ Len(response.json.items) > 0
         THEN LET emotions == response.json.items[1]
              IN  IF emotions.type # "list" THEN _get_default_sentiment
                  ELSE LET r == ScanEmotions(emotions.pairs, 1, EmptyScores, "neutral", 0)
                       IN  [type |-> "dict",
                            happiness |-> SetDefault(r.scores.happiness),
                            sadness |-> SetDefault(r.scores.sadness),
                            anger |-> SetDefault(r.scores.anger),
                            fear |-> SetDefault(r.scores.fear),
                            surprise |-> SetDefault(r.scores.surprise),
                            disgust |-> SetDefault(r.scores.disgust),
                            overall_sentiment |-> r.overall_sentiment,
                            confidence |-> r.max_score]
         ELSE PyNone
    ELSE _get_default_sentiment

\* ------------------------------------------------------------ bcrypt
hashpw(password) == <<"bcrypt", password>>

checkpw(password, password_hash) == password_hash = hashpw(password)

Passwords == {"secret", "wrong"}

\* ------------------------------------------------------------ responses
Reply(endpoint, user_id, request, status, trace, body) ==
    [endpoint |-> endpoint, user_id |-> user_id, request |-> request,
     status |-> status, trace |-> trace, body |-> body]

Error(msg) == [error |-> msg]

NoRequest == [none |-> TRUE]

Idle == [pc |-> "idle"]

Init ==
    /\ now = 0
    /\ users = {}
    /\ tokens = {}
    /\ journal_entries = {}
    /\ mood_analysis = {}
    /\ payments = {}
    /\ gateway = {}
    /\ last = Reply("none", 0, NoRequest, 0, <<>>, Error(""))
    /\ ip = Idle
    /\ vp = Idle
    /\ ce = Idle
    /\ db = [connection |-> "open", pc |-> "idle", attempt |-> 0,
             conn_attempt |-> 0, calls |-> 0]

\* ------------------------------------------------------------ the clock
Tick(t) ==
    /\ t > now
    /\ now' = t
    /\ UNCHANGED <<ce, db, users, tokens, journal_entries, mood_analysis, payments,
                   gateway, last, ip, vp>>

\* ------------------------------------------------------------ POST /register
register(username, email, password) ==
    LET req == [username |-> username, email |-> email, password |-> password]
        user_id == NextId(users)
    IN
    /\ IF username = "" \/ email = "" \/ password = ""
       THEN /\ last' = Reply("register", 0, req, 400, <<"check_fields">>,
                             Error("Missing required fields"))
            /\ UNCHANGED <<users, tokens>>
       ELSE IF get_user_by_email(email) # {}
       THEN /\ last' = Reply("register", 0, req, 409,
                             <<"check_fields", "select_user_by_email">>,
                             Error("User already exists"))
            /\ UNCHANGED <<users, tokens>>
       ELSE IF \E u \in users : u.username = username
       THEN \* the UNIQUE key on username makes the INSERT raise
            /\ last' = Reply("register", 0, req, 500,
                             <<"check_fields", "select_user_by_email", "insert_user">>,
                             Error("Registration failed"))
            /\ UNCHANGED <<users, tokens>>
       ELSE /\ users' = users \cup
                   {create_user_row(username, email, hashpw(password))}
            /\ tokens' = IssueToken(user_id)
            /\ last' = Reply("register", user_id, req, 201,
                             <<"check_fields", "select_user_by_email", "insert_user">>,
                             [user_id |-> user_id, trial_days_remaining |-> 14])
    /\ UNCHANGED <<ce, db, now, journal_entries, mood_analysis, payments, gateway,
                   ip, vp>>

\* ------------------------------------------------------------ POST /login
login(email, password) ==
    LET req == [email |-> email, password |-> password]
        found == get_user_by_email(email)
    IN
    /\ IF email = "" \/ password = ""
       THEN /\ last' = Reply("login", 0, req, 400, <<"check_fields">>,
                             Error("Missing email or password"))
            /\ UNCHANGED tokens
       ELSE IF found = {}
       THEN /\ last' = Reply("login", 0, req, 401,
                             <<"check_fields", "select_user_by_email">>,
                             Error("Invalid credentials"))
            /\ UNCHANGED tokens
       ELSE LET user == CHOOSE u \in found : TRUE IN
            IF ~checkpw(password, user.password_hash)
            THEN /\ last' = Reply("login", 0, req, 401,
                                  <<"check_fields", "select_user_by_email", "checkpw">>,
                                  Error("Invalid credentials"))
                 /\ UNCHANGED tokens
            ELSE IF ~Truthy(check_user_trial_status(user.id))
            THEN /\ last' = Reply("login", user.id, req, 403,
                                  <<"check_fields", "select_user_by_email", "checkpw", "gate">>,
                                  Error("Trial expired. Please upgrade to premium."))
                 /\ UNCHANGED tokens
            ELSE /\ tokens' = IssueToken(user.id)
                 /\ last' = Reply("login", user.id, req, 200,
                                  <<"check_fields", "select_user_by_email", "checkpw", "gate">>,
                                  [user_id |-> user.id, username |-> user.username])
    /\ UNCHANGED <<ce, db, now, users, journal_entries, mood_analysis, payments, gateway,
                   ip, vp>>

\* ------------------------------------------------ journal tables
create_journal_entry_row(user_id, content) ==
    [id |-> NextId(journal_entries), user_id |-> user_id, content |-> content,
     created_at |-> now]

\* sentiment_data.get(key, 0) on the dict analyze_emotion returned
save_mood_analysis_row(entry_id, sentiment_data) ==
    [id |-> NextId(mood_analysis), entry_id |-> entry_id,
     happiness_score |-> sentiment_data.happiness,
     sadness_score |-> sentiment_data.sadness,
     anger_score |-> sentiment_data.anger,
     fear_score |-> sentiment_data.fear,
     surprise_score |-> sentiment_data.surprise,
     disgust_score |-> sentiment_data.disgust,
     overall_sentiment |-> sentiment_data.overall_sentiment,
     confidence_score |-> sentiment_data.confidence]

\* ORDER BY je.created_at DESC; entries of one instant come newest id first
RECURSIVE OrderEntries(_)
OrderEntries(entries) ==
    IF entries = {} THEN <<>>
    ELSE LET je == CHOOSE x \in entries :
                      \A y \in entries :
                         \/ x.created_at > y.created_at
                         \/ x.created_at = y.created_at /\ x.id >= y.id
         IN  <<je>> \o OrderEntries(entries \ {je})

RECURSIVE OrderMoods(_)
OrderMoods(moods) ==
    IF moods = {} THEN <<>>
    ELSE LET ma == CHOOSE x \in moods : \A y \in moods : x.id <= y.id
         IN  <<ma>> \o OrderMoods(moods \ {ma})

\* the columns of mood_analysis for an entry that has no row there
NullMood ==
    [overall_sentiment |-> NullText, happiness_score |-> Null,
     sadness_score |-> Null, anger_score |-> Null, fear_score |-> Null,
     surprise_score |-> Null, disgust_score |-> Null]

\* SELECT je.*, ma.overall_sentiment, ma.happiness_score, ...
JoinRow(je, ma) ==
    [id |-> je.id, user_id |-> je.user_id, content |-> je.content,
     created_at |-> je.created_at,
     overall_sentiment |-> ma.overall_sentiment,
     happiness_score |-> ma.happiness_score, sadness_score |-> ma.sadness_score,
     anger_score |-> ma.anger_score, fear_score |-> ma.fear_score,
     surprise_score |-> ma.surprise_score, disgust_score |-> ma.disgust_score]

\* journal_entries je LEFT JOIN mood_analysis ma ON je.id = ma.entry_id: one
\* row for each analysis of an entry, one row of NULLs for an entry with none
RECURSIVE LeftJoin(_)
LeftJoin(entries) ==
    IF entries = <<>> THEN <<>>
    ELSE LET je == Head(entries)
             moods == OrderMoods({ma \in mood_analysis : ma.entry_id = je.id})
         IN  (IF moods = <<>> THEN <<JoinRow(je, NullMood)>>
              ELSE [i \in 1..Len(moods) |-> JoinRow(je, moods[i])])
             \o LeftJoin(Tail(entries))

get_user_entries_AllUsers(user_id, limit) ==
    LET rows == LeftJoin(OrderEntries(journal_entries))
    IN  SubSeq(rows, 1, Min(Len(rows), limit))

\* ... WHERE je.user_id = %s ORDER BY je.created_at DESC LIMIT %s
get_user_entries(user_id, limit) ==
    LET rows == LeftJoin(OrderEntries({e \in journal_entries : e.user_id = user_id}))
    IN  SubSeq(rows, 1, Min(Len(rows), limit))

\* ------------------------------------------------ the mood summary
\* v / total_entries, kept as the fraction it is
Fraction(num, den) == [num |-> num, den |-> den]

AddScore_Overwrite(total, score) ==
    IF score # Null /\ score # 0 THEN score ELSE total

\* if entry.get(key): mood_totals[...] += float(entry[key])
AddScore(total, score) ==
    IF score # Null /\ score # 0 THEN total + score ELSE total

\* sentiment_counts[sentiment] = sentiment_counts.get(sentiment, 0) + 1
CountSentiment(sentiment_counts, sentiment) ==
    [k \in DOMAIN sentiment_counts \cup {sentiment} |->
        IF k = sentiment
        THEN (IF k \in DOMAIN sentiment_counts THEN sentiment_counts[k] ELSE 0) + 1
        ELSE sentiment_counts[k]]

\* the loop `for entry in entries_with_sentiment`, from entry i on; the rows
\* of the join carry the key overall_sentiment, so get's default is not taken
\* and a NULL is read as None
RECURSIVE SumEntries(_, _, _, _)
SumEntries(entries, i, mood_totals, sentiment_counts) ==
    IF i > Len(entries)
    THEN [mood_totals |-> mood_totals, sentiment_counts |-> sentiment_counts]
    ELSE LET entry == entries[i]
             totals2 ==
                 [happiness |-> AddScore(mood_totals.happiness, entry.happiness_score),
                  sadness |-> AddScore(mood_totals.sadness, entry.sadness_score),
                  anger |-> AddScore(mood_totals.anger, entry.anger_score),
                  fear |-> AddScore(mood_totals.fear, entry.fear_score),
                  surprise |-> AddScore(mood_totals.surprise, entry.surprise_score),
                  disgust |-> AddScore(mood_totals.disgust, entry.disgust_score)]
             sentiment == entry.overall_sentiment
         IN  SumEntries(entries, i + 1, totals2,
                        CountSentiment(sentiment_counts, sentiment))

SentimentAnalyzer_get_mood_summary_NoGuard(entries_with_sentiment) ==
    LET total_entries == Len(entries_with_sentiment)
        r == SumEntries(entries_with_sentiment, 1,
                        [happiness |-> 0, sadness |-> 0, anger |-> 0,
                         fear |-> 0, surprise |-> 0, disgust |-> 0],
                        [positive |-> 0, negative |-> 0, neutral |-> 0])
    IN  [type |-> "dict",
         mood_averages |->
             [k \in DOMAIN r.mood_totals |-> Fraction(r.mood_totals[k], total_entries)],
         sentiment_distribution |-> r.sentiment_counts,
         total_entries |-> total_entries]

\* SentimentAnalyzer.get_mood_summary
SentimentAnalyzer_get_mood_summary(entries_with_sentiment) ==
    IF entries_with_sentiment = <<>> THEN PyNone
    ELSE LET total_entries == Len(entries_with_sentiment)
             r == SumEntries(entries_with_sentiment, 1,
                             [happiness |-> 0, sadness |-> 0, anger |-> 0,
                              fear |-> 0, surprise |-> 0, disgust |-> 0],
                             [positive |-> 0, negative |-> 0, neutral |-> 0])
         IN  [type |-> "dict",
              mood_averages |->
                  [k \in DOMAIN r.mood_totals |->
                      Fraction(r.mood_totals[k], total_entries)],
              sentiment_distribution |-> r.sentiment_counts,
              total_entries |-> total_entries]

\* jsonify sorts the keys of every dict: a dict with the key None beside
\* text keys raises TypeError
Serializable(mood_summary) ==
    \/ mood_summary = PyNone
    \/ NullText \notin DOMAIN mood_summary.sentiment_distribution

\* the classifier responses the journal requests are run with
EntryResponses ==
    {Response("error", 0, Body("invalid", <<>>)),
     Response("ok", 503, Body("dict", <<>>)),
     Response("ok", 200, Body("list", <<>>)),
     WellFormed(<<Pair("joy", 9), Pair("sadness", 3)>>)}

\* a request that never reaches the classifier
NoResponse == Response("none", 0, Body("invalid", <<>>))

Caller(user_id) == user_id \in {u.id : u \in users} /\ HasToken(user_id)

TrialExpired == Error("Trial expired. Please upgrade to premium.")

\* ------------------------------------------------ POST /journal/entries
create_entry(user_id, content, response) ==
    LET req == [content |-> content, response |-> response]
        entry == create_journal_entry_row(user_id, content)
        sentiment_data == analyze_emotion(response)
    IN
    /\ Caller(user_id)
    /\ IF content = ""
       THEN /\ last' = Reply("create_entry", user_id, req, 400, <<"check_content">>,
                             Error("Content is required"))
            /\ UNCHANGED <<journal_entries, mood_analysis>>
       ELSE IF ~Truthy(check_user_trial_status(user_id))
       THEN /\ last' = Reply("create_entry", user_id, req, 403,
                             <<"check_content", "gate">>, TrialExpired)
            /\ UNCHANGED <<journal_entries, mood_analysis>>
       ELSE /\ Cardinality(journal_entries) < MaxEntries
            /\ journal_entries' = journal_entries \cup {entry}
            /\ IF sentiment_data = PyNone
               THEN \* None.get raises inside save_mood_analysis
                    /\ UNCHANGED mood_analysis
                    /\ last' = Reply("create_entry", user_id, req, 500,
                                     <<"check_content", "gate", "insert_entry",
                                       "analyze_emotion", "save_mood_analysis">>,
                                     Error("Failed to create entry"))
               ELSE /\ mood_analysis' = mood_analysis \cup
                           {save_mood_analysis_row(entry.id, sentiment_data)}
                    /\ last' = Reply("create_entry", user_id, req, 201,
                                     <<"check_content", "gate", "insert_entry",
                                       "analyze_emotion", "save_mood_analysis">>,
                                     [entry_id |-> entry.id, sentiment |-> sentiment_data])
    /\ UNCHANGED <<ce, db, now, users, tokens, payments, gateway, ip, vp>>

get_entries_NoGate(user_id) ==
    /\ Caller(user_id)
    /\ last' = Reply("get_entries", user_id, NoRequest, 200,
                     <<"select_entries">>,
                     [entries |-> get_user_entries(user_id, EntriesLimit),
                      total |-> Len(get_user_entries(user_id, EntriesLimit))])
    /\ UNCHANGED <<ce, db, now, users, tokens, journal_entries, mood_analysis, payments,
                   gateway, ip, vp>>

\* ------------------------------------------------ GET /journal/entries
get_entries(user_id) ==
    /\ Caller(user_id)
    /\ IF ~Truthy(check_user_trial_status(user_id))
       THEN last' = Reply("get_entries", user_id, NoRequest, 403, <<"gate">>, TrialExpired)
       ELSE last' = Reply("get_entries", user_id, NoRequest, 200,
                          <<"gate", "select_entries">>,
                          [entries |-> get_user_entries(user_id, EntriesLimit),
                      total |-> Len(get_user_entries(user_id, EntriesLimit))])
    /\ UNCHANGED <<ce, db, now, users, tokens, journal_entries, mood_analysis, payments,
                   gateway, ip, vp>>

\* ------------------------------------------------ GET /mood/summary
get_mood_summary(user_id) ==
    LET entries == get_user_entries(user_id, SummaryLimit)
        mood_summary == SentimentAnalyzer_get_mood_summary(entries)
    IN
    /\ Caller(user_id)
    /\ IF ~Truthy(check_user_trial_status(user_id))
       THEN last' = Reply("get_mood_summary", user_id, NoRequest, 403, <<"gate">>,
                          TrialExpired)
       ELSE IF ~Serializable(mood_summary)
       THEN last' = Reply("get_mood_summary", user_id, NoRequest, 500,
                          <<"gate", "select_entries", "summarize", "jsonify">>,
                          Error("Failed to generate mood summary"))
       ELSE last' = Reply("get_mood_summary", user_id, NoRequest, 200,
                          <<"gate", "select_entries", "summarize", "jsonify">>,
                          [mood_summary |-> mood_summary,
                           recent_entries |-> Len(entries)])
    /\ UNCHANGED <<ce, db, now, users, tokens, journal_entries, mood_analysis, payments,
                   gateway, ip, vp>>

\* ------------------------------------------------ GET /user/status
get_user_status(user_id) ==
    LET found == get_user_by_id(user_id) IN
    /\ Caller(user_id)
    /\ IF found = {}
       THEN last' = Reply("get_user_status", user_id, NoRequest, 404, <<"select_user">>,
                          Error("User not found"))
       ELSE LET user == CHOOSE u \in found : TRUE
                trial_active == check_user_trial_status(user_id)
                days_since_trial == DATEDIFF(now, user.trial_start_date)
                days_remaining == Max(0, 14 - days_since_trial)
            IN  last' = Reply("get_user_status", user_id, NoRequest, 200,
                              <<"select_user", "gate", "select_days">>,
                              [user_id |-> user.id, trial_active |-> trial_active,
                               days_remaining |-> days_remaining,
                               is_premium |-> user.is_premium])
    /\ UNCHANGED <<ce, db, now, users, tokens, journal_entries, mood_analysis, payments,
                   gateway, ip, vp>>

\* ------------------------------------------------ GET /subscription/status
get_subscription_status(user_id) ==
    LET found == get_user_by_id(user_id) IN
    /\ Caller(user_id)
    /\ IF found = {}
       THEN last' = Reply("get_subscription_status", user_id, NoRequest, 404,
                          <<"select_user">>, Error("User not found"))
       ELSE LET user == CHOOSE u \in found : TRUE
                trial_active == check_user_trial_status(user_id)
                \* DATEDIFF(DATE_ADD(trial_start_date, INTERVAL 14 DAY), NOW())
                result == DATEDIFF(user.trial_start_date + 14, now)
                days_remaining == IF Truthy(trial_active) THEN Max(0, result) ELSE 0
                trial_expired == IF Truthy(trial_active) THEN days_remaining <= 0
                                 ELSE FALSE
            IN  last' = Reply("get_subscription_status", user_id, NoRequest, 200,
                              IF Truthy(trial_active)
                              THEN <<"select_user", "gate", "select_days">>
                              ELSE <<"select_user", "gate">>,
                              [user_id |-> user.id, is_premium |-> user.is_premium,
                               premium_until |-> user.premium_until,
                               on_trial |-> trial_active,
                               trial_expired |-> trial_expired,
                               days_remaining |-> days_remaining])
    /\ UNCHANGED <<ce, db, now, users, tokens, journal_entries, mood_analysis, payments,
                   gateway, ip, vp>>

\* ------------------------------------------------ payment statements
\* amount by plan type (app.config.get falls back to the literal prices)
plan_amount(plan_type) ==
    IF plan_type = "yearly" THEN PREMIUM_PRICE_YEARLY ELSE PREMIUM_PRICE_MONTHLY

\* uuid4: a reference nobody holds yet
Fresh(reference) ==
    /\ reference \in References
    /\ reference \notin {p.reference : p \in payments}
    /\ reference \notin {t.reference : t \in gateway}
    /\ ip.pc # "idle" => reference # ip.reference

insert_payment_Verified(user_id, reference, amount, plan_type) ==
    payments \cup
        {[reference |-> reference, user_id |-> user_id, amount |-> amount,
          status |-> "success", plan_type |-> plan_type,
          verified_at |-> now, paystack_reference |-> reference]}

\* INSERT INTO payments (user_id, reference, amount, status, plan_type)
\*   VALUES (%s, %s, %s, 'pending', %s)
insert_payment(user_id, reference, amount, plan_type) ==
    payments \cup
        {[reference |-> reference, user_id |-> user_id, amount |-> amount,
          status |-> "pending", plan_type |-> plan_type,
          verified_at |-> Null, paystack_reference |-> Null]}

\* Transaction.initialize at the gateway
gateway_initialize(reference, amount) ==
    gateway \cup {[reference |-> reference, amount |-> amount]}

\* Transaction.verify: response['data'] for a transaction the gateway holds
gateway_data(reference, status) ==
    LET t == CHOOSE t \in gateway : t.reference = reference
    IN  [status |-> status, amount |-> t.amount, reference |-> t.reference]

\* the statuses the gateway can answer verify(reference) with; "error" is
\* the call raising or answering without data
VerifyOutcomes(reference) ==
    IF reference \in {t.reference : t \in gateway}
    THEN GatewayStatuses \cup {"error"}
    ELSE {"error"}

GatewaySucceeded_NotFailed(data_status) == data_status # "failed"

\* response['data']['status'] == 'success'
GatewaySucceeded(data_status) == data_status = "success"

update_payment_AnyUser(pays, reference, user_id, data) ==
    {IF p.reference = reference
     THEN [p EXCEPT !.status = "success", !.verified_at = now,
                    !.amount = data.amount, !.paystack_reference = data.reference]
     ELSE p : p \in pays}

\* UPDATE payments SET status = 'success', verified_at = NOW(), amount = %s,
\*   paystack_reference = %s WHERE reference = %s AND user_id = %s
update_payment(pays, reference, user_id, data) ==
    {IF p.reference = reference /\ p.user_id = user_id
     THEN [p EXCEPT !.status = "success", !.verified_at = now,
                    !.amount = data.amount, !.paystack_reference = data.reference]
     ELSE p : p \in pays}

\* SELECT * FROM payments WHERE reference = %s AND user_id = %s
select_payment(pays, reference, user_id) ==
    {p \in pays : p.reference = reference /\ p.user_id = user_id}

expires_at_AlwaysMonthly(plan_type, t) == t + MonthlyDays

\* now + timedelta(days=365) for yearly, now + timedelta(days=30) otherwise
expires_at(plan_type, t) ==
    IF plan_type = "yearly" THEN t + YearlyDays ELSE t + MonthlyDays

\* UPDATE users SET is_premium = TRUE, premium_since = %s, premium_until = %s
\*   WHERE id = %s
update_user_premium(usrs, user_id, since, until) ==
    {IF u.id = user_id
     THEN [u EXCEPT !.is_premium = 1, !.premium_since = since, !.premium_until = until]
     ELSE u : u \in usrs}

PaymentFailed == [status |-> FALSE, message |-> "Payment verification failed"]

\* ------------------------------------------------ POST /payment/initialize
initialize_payment(user_id, plan_type, outcome) ==
    LET req == [plan_type |-> plan_type]
        amount == plan_amount(plan_type)
    IN
    /\ Caller(user_id)
    /\ IF get_user_by_id(user_id) = {}
       THEN /\ last' = Reply("initialize_payment", user_id, req, 404, <<"select_user">>,
                             Error("User not found"))
            /\ UNCHANGED <<payments, gateway>>
       ELSE IF outcome = "error"
       THEN /\ last' = Reply("initialize_payment", user_id, req, 500,
                             <<"select_user", "gateway_initialize">>,
                             [status |-> FALSE, message |-> "Failed to initialize payment"])
            /\ UNCHANGED <<payments, gateway>>
       ELSE \E reference \in References :
            /\ Fresh(reference)
            /\ gateway' = gateway_initialize(reference, amount)
            /\ payments' = insert_payment(user_id, reference, amount, plan_type)
            /\ last' = Reply("initialize_payment", user_id, req, 200,
                             <<"select_user", "gateway_initialize", "insert_payment">>,
                             [status |-> TRUE, reference |-> reference])
    /\ UNCHANGED <<ce, db, now, users, tokens, journal_entries, mood_analysis, ip, vp>>

\* ------------------------------------------------ POST /payment/verify
verify_payment(user_id, reference, status) ==
    LET req == [reference |-> reference, gateway_status |-> status]
    IN
    /\ Caller(user_id)
    /\ IF reference = NoReference
       THEN /\ status = "error"
            /\ last' = Reply("verify_payment", user_id, req, 400, <<"check_reference">>,
                             Error("Reference is required"))
            /\ UNCHANGED <<payments, users>>
       ELSE /\ status \in VerifyOutcomes(reference)
            /\ IF status = "error"
               THEN /\ last' = Reply("verify_payment", user_id, req, 500,
                                     <<"check_reference", "gateway_verify">>, PaymentFailed)
                    /\ UNCHANGED <<payments, users>>
               ELSE IF ~GatewaySucceeded(status)
               THEN /\ last' = Reply("verify_payment", user_id, req, 400,
                                     <<"check_reference", "gateway_verify">>, PaymentFailed)
                    /\ UNCHANGED <<payments, users>>
               ELSE LET data == gateway_data(reference, status)
                        updated == update_payment(payments, reference, user_id, data)
                        payment == select_payment(updated, reference, user_id)
                    IN  /\ payments' = updated
                        /\ IF payment # {}
                           THEN LET plan_type == (CHOOSE q \in payment : TRUE).plan_type
                                    until == expires_at(plan_type, now)
                                IN  /\ users' = update_user_premium(users, user_id, now, until)
                                    /\ last' = Reply("verify_payment", user_id, req, 200,
                                            <<"check_reference", "gateway_verify",
                                              "update_payments", "select_payments",
                                              "update_users">>,
                                            [status |-> TRUE, is_premium |-> TRUE,
                                             premium_until |-> until])
                           ELSE /\ UNCHANGED users
                                /\ last' = Reply("verify_payment", user_id, req, 400,
                                            <<"check_reference", "gateway_verify",
                                              "update_payments", "select_payments">>,
                                            PaymentFailed)
    /\ UNCHANGED <<ce, db, now, tokens, journal_entries, mood_analysis, gateway, ip, vp>>

\* ------------------------------------------------ the payment flow, statement by statement
\* The connection is opened with autocommit=True and the handlers open no
\* transaction: every execute_query is committed on its own, other requests
\* run between two statements of a handler, and a statement can fail (after
\* handle_db_errors gave up), which ends the handler in its except branch.

ip_begin_InsertFirst(user_id, plan_type) ==
    /\ ip.pc = "idle"
    /\ Caller(user_id)
    /\ get_user_by_id(user_id) # {}
    /\ \E reference \in References :
         /\ Fresh(reference)
         /\ payments' = insert_payment(user_id, reference, plan_amount(plan_type),
                                       plan_type)
         /\ ip' = [pc |-> "gateway", user_id |-> user_id, plan_type |-> plan_type,
                   amount |-> plan_amount(plan_type), reference |-> reference]
    /\ UNCHANGED <<ce, db, now, users, tokens, journal_entries, mood_analysis, gateway,
                   last, vp>>

\* initialize_payment up to the call of paystack_service.initialize_transaction
ip_begin(user_id, plan_type) ==
    /\ ip.pc = "idle"
    /\ Caller(user_id)
    /\ IF get_user_by_id(user_id) = {}
       THEN /\ last' = Reply("initialize_payment", user_id, [plan_type |-> plan_type],
                             404, <<"select_user">>, Error("User not found"))
            /\ UNCHANGED ip
       ELSE \E reference \in References :
            /\ Fresh(reference)
            /\ ip' = [pc |-> "gateway", user_id |-> user_id, plan_type |-> plan_type,
                      amount |-> plan_amount(plan_type), reference |-> reference]
            /\ UNCHANGED last
    /\ UNCHANGED <<ce, db, now, users, tokens, journal_entries, mood_analysis, payments,
                   gateway, vp>>

\* the gateway answers, or the call raises
ip_gateway(outcome) ==
    /\ ip.pc = "gateway"
    /\ IF outcome = "error"
       THEN /\ last' = Reply("initialize_payment", ip.user_id,
                             [plan_type |-> ip.plan_type], 500,
                             <<"select_user", "gateway_initialize">>,
                             [status |-> FALSE, message |-> "Failed to initialize payment"])
            /\ ip' = Idle
            /\ UNCHANGED gateway
       ELSE /\ gateway' = gateway_initialize(ip.reference, ip.amount)
            /\ ip' = [ip EXCEPT !.pc = "insert"]
            /\ UNCHANGED last
    /\ UNCHANGED <<ce, db, now, users, tokens, journal_entries, mood_analysis, payments, vp>>

\* the INSERT INTO payments and the response
ip_insert(ok) ==
    /\ ip.pc = "insert"
    /\ IF ok
       THEN /\ payments' = insert_payment(ip.user_id, ip.reference, ip.amount, ip.plan_type)
            /\ last' = Reply("initialize_payment", ip.user_id,
                             [plan_type |-> ip.plan_type], 200,
                             <<"select_user", "gateway_initialize", "insert_payment">>,
                             [status |-> TRUE, reference |-> ip.reference])
       ELSE /\ UNCHANGED payments
            /\ last' = Reply("initialize_payment", ip.user_id,
                             [plan_type |-> ip.plan_type], 500,
                             <<"select_user", "gateway_initialize", "insert_payment">>,
                             [status |-> FALSE, message |-> "Failed to initialize payment"])
    /\ ip' = Idle
    /\ UNCHANGED <<ce, db, now, users, tokens, journal_entries, mood_analysis, gateway, vp>>

VpReply(status, trace, body) ==
    Reply("verify_payment", vp.user_id,
          [reference |-> vp.reference, gateway_status |-> vp.data.status],
          status, trace, body)

\* verify_payment up to the gateway's answer
vp_begin(user_id, reference, status) ==
    LET req == [reference |-> reference, gateway_status |-> status]
    IN
    /\ vp.pc = "idle"
    /\ Caller(user_id)
    /\ IF reference = NoReference
       THEN /\ status = "error"
            /\ last' = Reply("verify_payment", user_id, req, 400, <<"check_reference">>,
                             Error("Reference is required"))
            /\ UNCHANGED vp
       ELSE /\ status \in VerifyOutcomes(reference)
            /\ IF status = "error"
               THEN /\ last' = Reply("verify_payment", user_id, req, 500,
                                     <<"check_reference", "gateway_verify">>, PaymentFailed)
                    /\ UNCHANGED vp
               ELSE IF ~GatewaySucceeded(status)
               THEN /\ last' = Reply("verify_payment", user_id, req, 400,
                                     <<"check_reference", "gateway_verify">>, PaymentFailed)
                    /\ UNCHANGED vp
               ELSE /\ vp' = [pc |-> "update_payments", user_id |-> user_id,
                              reference |-> reference,
                              data |-> gateway_data(reference, status)]
                    /\ UNCHANGED last
    /\ UNCHANGED <<ce, db, now, users, tokens, journal_entries, mood_analysis, payments,
                   gateway, ip>>

\* the UPDATE payments
vp_update_payments(ok) ==
    /\ vp.pc = "update_payments"
    /\ IF ok
       THEN /\ payments' = update_payment(payments, vp.reference, vp.user_id, vp.data)
            /\ vp' = [vp EXCEPT !.pc = "select_payments"]
            /\ UNCHANGED last
       ELSE /\ last' = VpReply(500, <<"check_reference", "gateway_verify",
                                      "update_payments">>, PaymentFailed)
            /\ vp' = Idle
            /\ UNCHANGED payments
    /\ UNCHANGED <<ce, db, now, users, tokens, journal_entries, mood_analysis, gateway, ip>>

\* the SELECT * FROM payments and `if payment:`
vp_select_payments(ok) ==
    LET payment == select_payment(payments, vp.reference, vp.user_id) IN
    /\ vp.pc = "select_payments"
    /\ IF ~ok
       THEN /\ last' = VpReply(500, <<"check_reference", "gateway_verify",
                                      "update_payments", "select_payments">>, PaymentFailed)
            /\ vp' = Idle
       ELSE IF payment = {}
       THEN /\ last' = VpReply(400, <<"check_reference", "gateway_verify",
                                      "update_payments", "select_payments">>, PaymentFailed)
            /\ vp' = Idle
       ELSE /\ vp' = [pc |-> "update_users", user_id |-> vp.user_id,
                      reference |-> vp.reference, data |-> vp.data,
                      plan_type |-> (CHOOSE q \in payment : TRUE).plan_type]
            /\ UNCHANGED last
    /\ UNCHANGED <<ce, db, now, users, tokens, journal_entries, mood_analysis, payments,
                   gateway, ip>>

\* now = datetime.utcnow(), the UPDATE users and the response
vp_update_users(ok) ==
    LET until == expires_at(vp.plan_type, now) IN
    /\ vp.pc = "update_users"
    /\ IF ok
       THEN /\ users' = update_user_premium(users, vp.user_id, now, until)
            /\ last' = VpReply(200, <<"check_reference", "gateway_verify",
                                      "update_payments", "select_payments",
                                      "update_users">>,
                               [status |-> TRUE, is_premium |-> TRUE,
                                premium_until |-> until])
       ELSE /\ UNCHANGED users
            /\ last' = VpReply(500, <<"check_reference", "gateway_verify",
                                      "update_payments", "select_payments",
                                      "update_users">>, PaymentFailed)
    /\ vp' = Idle
    /\ UNCHANGED <<ce, db, now, tokens, journal_entries, mood_analysis, payments, gateway, ip>>

\* ------------------------------------------------ create_entry over handle_db_errors
\* create_entry statement by statement, its two INSERTs run by the wrapper of
\* handle_db_errors.  db.pc is the wrapper's position: "attempt" at the top of
\* its loop, "connect" inside self.connect(), "func" about to run the wrapped
\* function; db.attempt and db.conn_attempt are the loop variables of the
\* wrapper and of connect, db.calls counts the runs of the wrapped function
\* in the call in progress.  The SELECT of the gate is taken to succeed.

\* the wrapper is entered: for attempt in range(max_retries)
StartCall == [db EXCEPT !.pc = "attempt", !.attempt = 0, !.conn_attempt = 0, !.calls = 0]

CeRequest == [content |-> ce.content, response |-> ce.response]

CeTrace ==
    IF ce.pc = "insert_entry" THEN <<"check_content", "gate", "insert_entry">>
    ELSE <<"check_content", "gate", "insert_entry", "analyze_emotion",
           "save_mood_analysis">>

\* create_entry's except branch
CeFailed ==
    Reply("create_entry", ce.user_id, CeRequest, 500, CeTrace,
          Error("Failed to create entry"))

LastAttempt_Five(attempt) == attempt = 4

\* if attempt == max_retries - 1
LastAttempt(attempt) == attempt = max_retries - 1

\* the wrapper's except branch: the connection is dropped, the last attempt
\* raises to the handler, any other goes round the loop
wrapper_except(calls) ==
    IF LastAttempt(db.attempt)
    THEN /\ db' = [db EXCEPT !.connection = "none", !.pc = "idle", !.calls = calls]
         /\ ce' = Idle
         /\ last' = CeFailed
    ELSE /\ db' = [db EXCEPT !.connection = "none", !.pc = "attempt",
                             !.attempt = @ + 1, !.calls = calls]
         /\ UNCHANGED <<ce, last>>

\* create_entry up to the call of db.create_journal_entry
ce_begin(user_id, content, response) ==
    LET req == [content |-> content, response |-> response] IN
    /\ ce.pc = "idle"
    /\ db.pc = "idle"
    /\ Caller(user_id)
    /\ IF content = ""
       THEN /\ last' = Reply("create_entry", user_id, req, 400, <<"check_content">>,
                             Error("Content is required"))
            /\ UNCHANGED <<ce, db>>
       ELSE IF ~Truthy(check_user_trial_status(user_id))
       THEN /\ last' = Reply("create_entry", user_id, req, 403,
                             <<"check_content", "gate">>, TrialExpired)
            /\ UNCHANGED <<ce, db>>
       ELSE /\ Cardinality(journal_entries) < MaxEntries
            /\ ce' = [pc |-> "insert_entry", user_id |-> user_id, content |-> content,
                      response |-> response, entry_id |-> Null]
            /\ db' = StartCall
            /\ UNCHANGED last
    /\ UNCHANGED <<now, users, tokens, journal_entries, mood_analysis, payments,
                   gateway, ip, vp>>

\* if not self.connection or not self.connection.open: self.connect()
wrapper_attempt ==
    /\ db.pc = "attempt"
    /\ db' = IF db.connection # "open"
             THEN [db EXCEPT !.pc = "connect", !.conn_attempt = 0]
             ELSE [db EXCEPT !.pc = "func"]
    /\ UNCHANGED <<now, users, tokens, journal_entries, mood_analysis, payments,
                   gateway, last, ip, vp, ce>>

\* one pymysql.connect of Database.connect: on its last failure connect
\* raises, which the wrapper's except branch catches
connect_attempt(ok) ==
    /\ db.pc = "connect"
    /\ IF ok
       THEN /\ db' = [db EXCEPT !.connection = "open", !.pc = "func"]
            /\ UNCHANGED <<ce, last>>
       ELSE IF db.conn_attempt = connect_max_retries - 1
       THEN wrapper_except(db.calls)
       ELSE /\ db' = [db EXCEPT !.conn_attempt = @ + 1]
            /\ UNCHANGED <<ce, last>>
    /\ UNCHANGED <<now, users, tokens, journal_entries, mood_analysis, payments,
                   gateway, ip, vp>>

\* the outcomes of one run of execute_query: the statement is committed and
\* answered, it fails before it took effect, or it is committed (autocommit)
\* and the connection is lost before the answer is read
QueryOutcomes == {"ok", "lost_before", "lost_after"}

\* return func(self, *args, **kwargs): one run of the INSERT, and on its
\* return the handler up to its next wrapped call or its response
wrapper_func(outcome) ==
    LET applied == outcome \in {"ok", "lost_after"}
        entry == create_journal_entry_row(ce.user_id, ce.content)
        sentiment_data == analyze_emotion(ce.response)
        calls == db.calls + 1
    IN
    /\ db.pc = "func"
    /\ IF ce.pc = "insert_entry"
       THEN /\ journal_entries' = IF applied THEN journal_entries \cup {entry}
                                   ELSE journal_entries
            /\ UNCHANGED mood_analysis
            /\ IF outcome # "ok" THEN wrapper_except(calls)
               ELSE IF sentiment_data = PyNone
               THEN \* None.get raises before save_mood_analysis reaches the wrapper
                    /\ db' = [db EXCEPT !.pc = "idle", !.calls = calls]
                    /\ ce' = Idle
                    /\ last' = Reply("create_entry", ce.user_id, CeRequest, 500,
                                     <<"check_content", "gate", "insert_entry",
                                       "analyze_emotion", "save_mood_analysis">>,
                                     Error("Failed to create entry"))
               ELSE /\ ce' = [ce EXCEPT !.pc = "save_mood", !.entry_id = entry.id]
                    /\ db' = StartCall
                    /\ UNCHANGED last
       ELSE /\ mood_analysis' =
                   IF applied
                   THEN mood_analysis \cup
                           {save_mood_analysis_row(ce.entry_id, sentiment_data)}
                   ELSE mood_analysis
            /\ UNCHANGED journal_entries
            /\ IF outcome # "ok" THEN wrapper_except(calls)
               ELSE /\ db' = [db EXCEPT !.pc = "idle", !.calls = calls]
                    /\ ce' = Idle
                    /\ last' = Reply("create_entry", ce.user_id, CeRequest, 201, CeTrace,
                                     [entry_id |-> ce.entry_id,
                                      sentiment |-> sentiment_data])
    /\ UNCHANGED <<now, users, tokens, payments, gateway, ip, vp>>

\* ------------------------------------------------ the classifier adapter alone
Analyze(response) ==
    /\ last.endpoint = "none"
    /\ last' = Reply("analyze_emotion", 0, [response |-> response], 0,
                     <<"analyze_emotion">>, analyze_emotion(response))
    /\ UNCHANGED <<ce, db, now, users, tokens, journal_entries, mood_analysis, payments,
                   gateway, ip, vp>>

\* ------------------------------------------------ the mood summary alone
\* the sentiment vectors the summarized entries were analysed to
SummaryVectors ==
    {_get_default_sentiment,
     analyze_emotion(WellFormed(<<Pair("joy", 9), Pair("sadness", 3)>>)),
     analyze_emotion(WellFormed(<<Pair("Anger", 9)>>)),
     analyze_emotion(WellFormed(<<Pair("neutral", 3)>>))}

SummaryEntry ==
    [id |-> 1, user_id |-> 1, content |-> "feeling great today", created_at |-> 0]

\* the rows get_user_entries gives back: an entry with its analysis, or with
\* NULLs when it has none
SummaryRows ==
    {JoinRow(SummaryEntry, NullMood)}
    \cup {JoinRow(SummaryEntry, save_mood_analysis_row(1, v)) : v \in SummaryVectors}

SummaryInputs == UNION {[1..n -> SummaryRows] : n \in 0..MaxRows}

Summarize(entries) ==
    /\ last.endpoint = "none"
    /\ last' = Reply("mood_summary", 0, [entries |-> entries], 0,
                     <<"get_mood_summary">>,
                     SentimentAnalyzer_get_mood_summary(entries))
    /\ UNCHANGED <<ce, db, now, users, tokens, journal_entries, mood_analysis, payments,
                   gateway, ip, vp>>

\* ------------------------------------------------ specifications
UserIds == {u.id : u \in users}

NextAccounts ==
    \/ \E t \in Instants : Tick(t)
    \/ \E r \in Registrations : register(r[1], r[2], "secret")
    \/ \E e \in Emails, pw \in Passwords : login(e, pw)

NextJournal ==
    \/ \E u \in UserIds, r \in EntryResponses : create_entry(u, "feeling great today", r)
    \/ \E u \in UserIds : create_entry(u, "", NoResponse)
    \/ \E u \in UserIds : get_entries(u)
    \/ \E u \in UserIds : get_mood_summary(u)
    \/ \E u \in UserIds : get_user_status(u)
    \/ \E u \in UserIds : get_subscription_status(u)

NextPayments ==
    \/ \E u \in UserIds, pt \in PlanInputs, o \in {"ok", "error"} :
          initialize_payment(u, pt, o)
    \/ \E u \in UserIds, r \in References \cup {NoReference},
          st \in GatewayStatuses \cup {"error"} : verify_payment(u, r, st)

NextSteps ==
    \/ \E u \in UserIds, pt \in PlanInputs : ip_begin(u, pt)
    \/ \E o \in {"ok", "error"} : ip_gateway(o)
    \/ \E ok \in BOOLEAN : ip_insert(ok)
    \/ \E u \in UserIds, r \in References \cup {NoReference},
          st \in GatewayStatuses \cup {"error"} : vp_begin(u, r, st)
    \/ \E ok \in BOOLEAN : vp_update_payments(ok)
    \/ \E ok \in BOOLEAN : vp_select_payments(ok)
    \/ \E ok \in BOOLEAN : vp_update_users(ok)

\* the payment requests, with one plan and one failing gateway status
NextPaymentsBrief ==
    \/ \E u \in UserIds, o \in {"ok", "error"} : initialize_payment(u, "yearly", o)
    \/ \E u \in UserIds, r \in References \cup {NoReference},
          st \in {"success", "failed", "error"} : verify_payment(u, r, st)

Next == NextAccounts \/ NextJournal \/ NextPaymentsBrief

\* every endpoint, each request handled in one piece on a database that works
Spec == Init /\ [][Next]_vars

\* the accounts and the payment flow, over every plan and gateway status
SpecPay == Init /\ [][NextAccounts \/ NextPayments]_vars

\* the payment handlers interleaved statement by statement
SpecSteps == Init /\ [][NextAccounts \/ NextSteps]_vars

\* one account: registered, logged in again later, its trial running out
NextAccount ==
    \/ \E t \in Instants : Tick(t)
    \/ register("ann", "a@x", "secret")
    \/ login("a@x", "secret")

\* the classifier answers well, or with a 200 that holds no list of pairs
NextDb ==
    \/ \E u \in UserIds,
          r \in {WellFormed(<<Pair("joy", 9), Pair("sadness", 3)>>),
                 Response("ok", 200, Body("list", <<>>))} :
          ce_begin(u, "feeling great today", r)
    \/ \E u \in UserIds : ce_begin(u, "", NoResponse)
    \/ wrapper_attempt
    \/ \E ok \in BOOLEAN : connect_attempt(ok)
    \/ \E o \in QueryOutcomes : wrapper_func(o)

\* create_entry with its INSERTs retried by handle_db_errors
SpecDb == Init /\ [][NextAccount \/ NextDb]_vars

\* the wrapper goes on: its loop, connect's loop and the wrapped function
\* each take their next step (time.sleep returns, a query returns or raises
\* within its timeouts)
SpecDbLive ==
    /\ SpecDb
    /\ WF_vars(wrapper_attempt)
    /\ WF_vars(\E ok \in BOOLEAN : connect_attempt(ok))
    /\ WF_vars(\E o \in QueryOutcomes : wrapper_func(o))

\* the days on which requests arrive, and one long after every premium_until
\* of a monthly payment
LaterInstants == Instants \cup {50}

\* one account: its trial, a monthly payment and the two status endpoints
NextStatus ==
    \/ \E t \in LaterInstants : Tick(t)
    \/ register("ann", "a@x", "secret")
    \/ login("a@x", "secret")
    \/ \E u \in UserIds : initialize_payment(u, "monthly", "ok")
    \/ \E u \in UserIds, r \in References : verify_payment(u, r, "success")
    \/ \E u \in UserIds : get_user_status(u)
    \/ \E u \in UserIds : get_subscription_status(u)

SpecStatus == Init /\ [][NextStatus]_vars

\* ------------------------------------------------ the listing alone
\* Two users on day 14 of their trial, logged in that day, and the journal
\* after n create_entry requests, four a day: either the two users wrote in
\* turn, or the second user wrote the first entry and the first user all the
\* others.  Each entry has its analysis: the first user's entries of even
\* days were analysed to joy, those of odd days to the default vector, the
\* second user's to anger.
ListedUser(id, username, email) ==
    [id |-> id, username |-> username, email |-> email,
     password_hash |-> hashpw("secret"),
     trial_start_date |-> 0, is_premium |-> 0,
     premium_since |-> Null, premium_until |-> Null]

ListedOwner(pattern, i) ==
    IF pattern = "in turn" THEN (IF i % 2 = 1 THEN 1 ELSE 2)
    ELSE (IF i = 1 THEN 2 ELSE 1)

ListedEntry(pattern, i) ==
    [id |-> i, user_id |-> ListedOwner(pattern, i),
     content |-> "feeling great today", created_at |-> i \div 4]

ListedVector(pattern, i) ==
    IF ListedOwner(pattern, i) = 2
    THEN analyze_emotion(WellFormed(<<Pair("Anger", 9)>>))
    ELSE IF (i \div 4) % 2 = 0
    THEN analyze_emotion(WellFormed(<<Pair("joy", 9), Pair("sadness", 3)>>))
    ELSE _get_default_sentiment

ListedMood(pattern, i) ==
    LET sentiment_data == ListedVector(pattern, i)
    IN  [id |-> i, entry_id |-> i,
         happiness_score |-> sentiment_data.happiness,
         sadness_score |-> sentiment_data.sadness,
         anger_score |-> sentiment_data.anger,
         fear_score |-> sentiment_data.fear,
         surprise_score |-> sentiment_data.surprise,
         disgust_score |-> sentiment_data.disgust,
         overall_sentiment |-> sentiment_data.overall_sentiment,
         confidence_score |-> sentiment_data.confidence]

InitListing ==
    /\ now = 14
    /\ users = {ListedUser(1, "ann", "a@x"), ListedUser(2, "bob", "b@x")}
    /\ tokens = {[user_id |-> 1, issued |-> 14], [user_id |-> 2, issued |-> 14]}
    /\ \E n \in 0..MaxListed, pattern \in {"in turn", "all but one"} :
          /\ journal_entries = {ListedEntry(pattern, i) : i \in 1..n}
          /\ mood_analysis = {ListedMood(pattern, i) : i \in 1..n}
    /\ payments = {}
    /\ gateway = {}
    /\ last = Reply("none", 0, NoRequest, 0, <<>>, Error(""))
    /\ ip = Idle
    /\ vp = Idle
    /\ ce = Idle
    /\ db = [connection |-> "open", pc |-> "idle", attempt |-> 0,
             conn_attempt |-> 0, calls |-> 0]

NextListing ==
    \/ \E u \in UserIds : get_entries(u)
    \/ \E u \in UserIds : get_mood_summary(u)

\* GET /journal/entries and GET /mood/summary over journals of up to
\* MaxListed entries
SpecListing == InitListing /\ [][NextListing]_vars

\* analyze_emotion applied once to each of the classifier's responses
SpecAnalyzer == Init /\ [][\E r \in ClassifierResponses : Analyze(r)]_vars

\* SentimentAnalyzer.get_mood_summary applied once to each sequence of rows
SpecSummary == Init /\ [][\E rows \in SummaryInputs : Summarize(rows)]_vars

\* ================================================================ claims
PaymentRefs == {p.reference : p \in payments}

UserRow(user_id) == CHOOSE u \in users : u.id = user_id

\* C1: for every user row the gate is true exactly when at most 14 days have
\* passed since trial_start_date or the user is premium (a non-premium user is
\* active on days 0..14 and inactive from day 15 on, a premium user is active
\* on every day); for a user id with no row it is false.
C1_TrialStatus ==
    /\ \A u \in users :
          LET days == now - u.trial_start_date
              active == Truthy(check_user_trial_status(u.id))
          IN  /\ (u.is_premium = 1) => active
              /\ (u.is_premium = 0 /\ days \in 0..14) => active
              /\ (u.is_premium = 0 /\ days >= 15) => ~active
    /\ \A id \in 1..3 : id \notin UserIds => ~Truthy(check_user_trial_status(id))

\* a non-premium user on day 15 beside a premium user on day 15
C1_Witness ==
    /\ \E u \in users : u.is_premium = 0 /\ now - u.trial_start_date = 15
    /\ \E u \in users : u.is_premium = 1 /\ now - u.trial_start_date = 15

\* C3: a verify_payment of user u for reference r on which the gateway reports
\* success, with a Payment row (r, u), leaves the row with status success and
\* u premium with premium_since = now and premium_until = now + 365 days for a
\* yearly row, now + 30 days otherwise; and a user turns premium only in a
\* verify_payment of that user on which the gateway reported success.
C3_VerifyGrantsPremium ==
    [][/\ \A u \in UserIds, r \in References :
            (verify_payment(u, r, "success") /\ select_payment(payments, r, u) # {})
            => LET p == CHOOSE q \in select_payment(payments, r, u) : TRUE
                   days == IF p.plan_type = "yearly" THEN 365 ELSE 30
               IN  /\ \A q \in select_payment(payments', r, u) : q.status = "success"
                   /\ select_payment(payments', r, u) # {}
                   /\ \E v \in users' :
                         /\ v.id = u
                         /\ v.is_premium = 1
                         /\ v.premium_since = now
                         /\ v.premium_until = now + days
                   /\ last'.status = 200
                   /\ last'.body.premium_until = now + days
       /\ \A u \in users, v \in users' :
            (v.id = u.id /\ u.is_premium = 0 /\ v.is_premium = 1)
            => /\ last'.endpoint = "verify_payment"
               /\ last'.user_id = u.id
               /\ last'.request.gateway_status = "success"]_vars

\* a verified yearly payment: the caller is premium until now + 365
C3_Witness ==
    /\ last.endpoint = "verify_payment"
    /\ last.status = 200
    /\ \E u \in users : u.id = last.user_id /\ u.is_premium = 1
                         /\ u.premium_since = now /\ u.premium_until = now + 365

\* C4: verifying again a reference whose Payment row already has status
\* success, by the same user and with the gateway still reporting success,
\* leaves the user's premium_since and premium_until as they were and answers
\* with that same premium_until.
C4_VerifyIdempotent ==
    [][\A u \in UserIds, r \in References :
          (/\ verify_payment(u, r, "success")
           /\ \E p \in select_payment(payments, r, u) : p.status = "success")
          => /\ \E v \in users' : /\ v.id = u
                                   /\ v.premium_since = UserRow(u).premium_since
                                   /\ v.premium_until = UserRow(u).premium_until
             /\ last'.body.premium_until = UserRow(u).premium_until]_vars

\* C5: a verify_payment by user u of a reference that another user
\* initialized, with the gateway reporting success, is answered as a failed
\* verification and changes no Payment row and no User row.
C5_CrossUserVerify ==
    [][\A u \in UserIds, r \in References :
          (/\ verify_payment(u, r, "success")
           /\ \E p \in payments : p.reference = r /\ p.user_id # u)
          => /\ last'.status = 400
             /\ last'.body.status = FALSE
             /\ payments' = payments
             /\ users' = users]_vars

\* user B was answered for a reference of user A that the gateway calls a success
C5_Witness ==
    /\ last.endpoint = "verify_payment"
    /\ last.request.gateway_status = "success"
    /\ \E p \in payments : p.reference = last.request.reference
                            /\ p.user_id # last.user_id

\* C6: a verify_payment on which the gateway reports a status other than
\* success, or for which no Payment row (reference, caller) exists, is answered
\* 400 as a failed verification and changes no Payment row and no User row.
C6_FailedVerifyChangesNothing ==
    [][\A u \in UserIds, r \in References, st \in GatewayStatuses :
          (/\ verify_payment(u, r, st)
           /\ st # "success" \/ select_payment(payments, r, u) = {})
          => /\ last'.status = 400
             /\ last'.body.status = FALSE
             /\ payments' = payments
             /\ users' = users]_vars

\* the gateway called a pending payment of the caller abandoned
C6_Witness ==
    /\ last.endpoint = "verify_payment"
    /\ last.request.gateway_status = "abandoned"
    /\ last.status = 400
    /\ \E p \in payments : p.reference = last.request.reference
                            /\ p.user_id = last.user_id /\ p.status = "pending"

\* C8: a Payment row is created with status pending; its status changes only
\* from pending to success, only in a verify_payment on which the gateway
\* reported success; a row with status success keeps it.
C8_PaymentStatusMonotone ==
    [][/\ \A q \in payments' : q.reference \notin PaymentRefs => q.status = "pending"
       /\ \A p \in payments :
            \E q \in payments' :
               /\ q.reference = p.reference
               /\ p.status = "success" => q.status = "success"
               /\ q.status # p.status
                  => /\ p.status = "pending" /\ q.status = "success"
                     /\ last'.endpoint = "verify_payment"
                     /\ last'.request.reference = p.reference
                     /\ last'.request.gateway_status = "success"]_vars

\* a payment was verified, and time has passed since
C8_Witness ==
    \E p \in payments : p.status = "success" /\ p.verified_at < now

Range(f) == {f[i] : i \in DOMAIN f}

\* a step in which the handler `endpoint` answered a request: every request
\* step leaves the clock alone and sets `last`
Answered(endpoint) ==
    now' = now /\ vars' # vars /\ last'.endpoint = endpoint

BearerEndpoints ==
    {"create_entry", "get_entries", "get_mood_summary", "get_user_status",
     "get_subscription_status", "initialize_payment", "verify_payment"}

\* the gate for the caller, as it stands when the request arrives
CallerInactive == ~Truthy(check_user_trial_status(last'.user_id))

\* C2 as stated: every bearer-token endpoint evaluates the gate before any
\* other check and before any read or write of user-owned data, and when the
\* gate is false it answers 403 and reads and writes no user-owned data.
C2_GateFirstEverywhere ==
    [][\A e \in BearerEndpoints :
          Answered(e)
          => /\ last'.trace[1] = "gate"
             /\ CallerInactive
                => /\ last'.status = 403
                   /\ last'.trace = <<"gate">>
                   /\ UNCHANGED <<users, journal_entries, mood_analysis, payments>>]_vars

\* C2, amended: GET /journal/entries and GET /mood/summary evaluate the gate
\* first and POST /journal/entries right after its content check (an empty
\* content is answered 400 without the gate); when the gate is false these
\* three answer 403 and read or write no journal entry and no mood analysis.
\* /user/status and /subscription/status read the user row first and never
\* answer 403; /payment/initialize and /payment/verify never evaluate the gate
\* and never answer 403.
C2_GateOnJournalEndpoints ==
    [][/\ (Answered("get_entries") \/ Answered("get_mood_summary"))
          => /\ last'.trace[1] = "gate"
             /\ CallerInactive => /\ last'.status = 403
                                  /\ last'.trace = <<"gate">>
             /\ ~CallerInactive => last'.status # 403
       /\ (Answered("create_entry") /\ last'.request.content # "")
          => /\ last'.trace[1] = "check_content"
             /\ last'.trace[2] = "gate"
             /\ CallerInactive => /\ last'.status = 403
                                  /\ last'.trace = <<"check_content", "gate">>
                                  /\ UNCHANGED <<journal_entries, mood_analysis>>
             /\ ~CallerInactive => last'.status # 403
       /\ (Answered("create_entry") /\ last'.request.content = "")
          => /\ last'.status = 400
             /\ last'.trace = <<"check_content">>
             /\ UNCHANGED <<journal_entries, mood_analysis>>
       /\ (Answered("get_user_status") \/ Answered("get_subscription_status"))
          => /\ last'.trace[1] = "select_user"
             /\ last'.status # 403
       /\ (Answered("initialize_payment") \/ Answered("verify_payment"))
          => /\ "gate" \notin Range(last'.trace)
             /\ last'.status # 403]_vars

\* a journal request of a user whose trial ran out was refused
C2_Witness ==
    /\ last.endpoint \in {"get_entries", "get_mood_summary", "create_entry"}
    /\ last.status = 403
    /\ ~Truthy(check_user_trial_status(last.user_id))

\* C7: the payment-status update and the premium update of verify_payment are
\* one atomic unit: a Payment row of user U with status success implies that U
\* is premium, also after a persistence failure between the two statements.
\* Stated for the states in which no verify_payment is in progress.
C7_SuccessImpliesPremium ==
    vp.pc = "idle"
    => \A p \in payments :
          p.status = "success" => \E u \in users : u.id = p.user_id /\ u.is_premium = 1

\* C9 as stated: when the gateway's initialize call is issued for reference R,
\* a Payment row with reference R and status pending already exists.
C9_RowBeforeGateway ==
    ip.pc = "gateway"
    => \E p \in payments : p.reference = ip.reference /\ p.status = "pending"

\* C9, amended: initialize_payment calls the gateway first and persists the
\* pending row only after the gateway call has returned: while the gateway's
\* initialize call for R is issued and until the INSERT, no Payment row with
\* reference R exists, and every Payment row's reference is one the gateway
\* holds.
C9_GatewayBeforeRow ==
    /\ ip.pc \in {"gateway", "insert"} => ip.reference \notin PaymentRefs
    /\ ip.pc = "insert" => ip.reference \in {t.reference : t \in gateway}
    /\ PaymentRefs \subseteq {t.reference : t \in gateway}

\* the gateway has answered for R and the row of R is not yet inserted
C9_Witness ==
    /\ ip.pc = "insert"
    /\ ip.reference \in {t.reference : t \in gateway}
    /\ ip.reference \notin PaymentRefs

\* a transport error, a status code other than 200, or a 200 whose body is
\* no JSON, no list, an empty list, or a list whose first item is no list of
\* pairs
UpstreamFailure(response) ==
    \/ response.transport = "error"
    \/ response.status_code # 200
    \/ response.json.type # "list"
    \/ response.json.items = <<>>
    \/ response.json.items[1].type # "list"

\* C10: on every upstream failure of the classifier call analyze_emotion
\* returns exactly the fixed default vector (happiness 0.5, the five others
\* 0.1, overall_sentiment neutral, confidence 0.5).
C10_FailureGivesDefault ==
    (last.endpoint = "analyze_emotion" /\ UpstreamFailure(last.request.response))
    => last.body = [type |-> "dict", happiness |-> 5, sadness |-> 1, anger |-> 1,
                    fear |-> 1, surprise |-> 1, disgust |-> 1,
                    overall_sentiment |-> "neutral", confidence |-> 5]

\* C11: for an active caller and a non-empty content, on a database that
\* works, create_entry answers 201 with the id of the new entry and a
\* sentiment vector, whatever the classifier call gave back (a well-formed
\* answer, a transport error, a status other than 200, a malformed 200 body).
C11_AnalysisNeverBlocks ==
    [][(/\ Answered("create_entry")
        /\ last'.request.content # ""
        /\ ~CallerInactive)
       => /\ last'.status = 201
          /\ last'.body.entry_id \in {e.id : e \in journal_entries'}
          /\ last'.body.sentiment.type = "dict"]_vars

\* C17: a register request with all its fields whose email or username an
\* existing user holds is answered 409 and leaves the users as they were; no
\* two users share an email or a username.
C17_DuplicateIs409 ==
    [][/\ (/\ Answered("register")
           /\ last'.request.username # "" /\ last'.request.email # ""
           /\ \E u \in users : \/ u.email = last'.request.email
                                \/ u.username = last'.request.username)
          => /\ last'.status = 409
             /\ users' = users
       /\ \A u, v \in users' :
             (u.email = v.email \/ u.username = v.username) => u = v]_vars

\* C20: every Payment row has a plan_type of monthly or yearly and the amount
\* configured for that plan_type, whatever plan_type the request carried.
C20_PlanTypeAndAmount ==
    \A p \in payments :
       /\ p.plan_type \in {"monthly", "yearly"}
       /\ p.amount = IF p.plan_type = "yearly" THEN 2999900 ELSE 299900

\* the six channels of a sentiment vector
ChannelNames == {"happiness", "sadness", "anger", "fear", "surprise", "disgust"}

\* the pairs of the well-formed response analyze_emotion was last applied to
AnalyzedPairs == last.request.response.json.items[1].pairs

AnalyzedWellFormed ==
    /\ last.endpoint = "analyze_emotion"
    /\ ~UpstreamFailure(last.request.response)

\* the channel the claim gives each label, letter case aside
ClaimedChannel(label) ==
    CASE label \in {"joy", "HAPPINESS"} -> "happiness"
      [] label = "sadness" -> "sadness"
      [] label = "Anger" -> "anger"
      [] label = "fear" -> "fear"
      [] label = "surprise" -> "surprise"
      [] label = "disgust" -> "disgust"
      [] OTHER -> "none"

\* C12: on a well-formed classifier response each channel of the result holds
\* the score of the last returned pair whose label maps to it (joy and
\* happiness to happiness, sadness, anger, fear, surprise and disgust to the
\* channel of their name, letter case aside), a label outside this set goes to
\* no channel, and a channel that no returned label maps to is present with 0.
C12_LabelsToChannels ==
    AnalyzedWellFormed
    => /\ last.body.type = "dict"
       /\ \A c \in ChannelNames :
             LET idx == {i \in 1..Len(AnalyzedPairs) :
                            ClaimedChannel(AnalyzedPairs[i].label) = c}
             IN  IF idx = {} THEN last.body[c] = 0
                 ELSE \E i \in idx : /\ \A j \in idx : j <= i
                                     /\ last.body[c] = AnalyzedPairs[i].score

\* an upper-case HAPPINESS beside a label of no channel
C12_Witness ==
    /\ AnalyzedWellFormed
    /\ Len(AnalyzedPairs) = 2
    /\ AnalyzedPairs[1] = Pair("HAPPINESS", 9)
    /\ AnalyzedPairs[2] = Pair("neutral", 3)
    /\ last.body.happiness = 9
    /\ last.body.sadness = 0

\* the polarity the claim gives each label
ClaimedPolarity(label) ==
    IF label \in {"joy", "HAPPINESS"} THEN "positive"
    ELSE IF label \in {"sadness", "fear", "Anger", "disgust"} THEN "negative"
    ELSE "neutral"

\* C13: on a well-formed classifier response the confidence is the greatest
\* score over all returned pairs, of a recognised label or not, and
\* overall_sentiment is the polarity of the first pair, in the order returned,
\* that has this score; with no score above 0 the result is neutral with
\* confidence 0.
C13_ConfidenceAndPolarity ==
    AnalyzedWellFormed
    => LET ps == AnalyzedPairs
           above == {i \in 1..Len(ps) : ps[i].score > 0}
       IN  IF above = {}
           THEN last.body.confidence = 0 /\ last.body.overall_sentiment = "neutral"
           ELSE \E i \in above :
                   /\ \A j \in 1..Len(ps) : ps[j].score <= ps[i].score
                   /\ \A j \in 1..(i - 1) : ps[j].score < ps[i].score
                   /\ last.body.confidence = ps[i].score
                   /\ last.body.overall_sentiment = ClaimedPolarity(ps[i].label)

\* two pairs of opposite polarity share the greatest score: the first decides
C13_Witness ==
    /\ AnalyzedWellFormed
    /\ Len(AnalyzedPairs) = 2
    /\ AnalyzedPairs[1] = Pair("sadness", 9)
    /\ AnalyzedPairs[2] = Pair("joy", 9)
    /\ last.body.confidence = 9
    /\ last.body.overall_sentiment = "negative"

\* the rows get_mood_summary was last applied to, and what it returned
SummarizedRows == last.request.entries

Summarized == last.endpoint = "mood_summary"

\* C14: over an empty sequence of entries get_mood_summary returns the null
\* summary, with no division; over a non-empty sequence it returns a summary
\* whose total_entries is the number of entries passed in.
C14_EmptyGivesNullSummary ==
    Summarized
    => IF SummarizedRows = <<>> THEN last.body = PyNone
       ELSE /\ last.body # PyNone
            /\ last.body.total_entries = Len(SummarizedRows)
            /\ \A c \in ChannelNames : last.body.mood_averages[c].den # 0

\* the summary of no entries
C14_Witness ==
    Summarized /\ SummarizedRows = <<>> /\ last.body = PyNone

\* the score an entry contributes to a channel: a missing or null score is 0
RowScore(row, c) ==
    LET v == CASE c = "happiness" -> row.happiness_score
               [] c = "sadness" -> row.sadness_score
               [] c = "anger" -> row.anger_score
               [] c = "fear" -> row.fear_score
               [] c = "surprise" -> row.surprise_score
               [] c = "disgust" -> row.disgust_score
    IN  IF v = Null THEN 0 ELSE v

RECURSIVE ChannelSum(_, _)
ChannelSum(rows, c) ==
    IF rows = <<>> THEN 0 ELSE RowScore(Head(rows), c) + ChannelSum(Tail(rows), c)

\* C15: for a non-empty sequence of N entries the average of each of the six
\* channels is the sum of the channel's scores over all N entries divided by
\* N, an entry with a null score adding 0 and counting in N; for one entry
\* the averages are its scores.
C15_AverageIsSumOverN ==
    (Summarized /\ SummarizedRows # <<>>)
    => \A c \in ChannelNames :
          LET avg == last.body.mood_averages[c]
              N == Len(SummarizedRows)
          IN  /\ avg.den # 0
              /\ avg.num * N = ChannelSum(SummarizedRows, c) * avg.den
              /\ N = 1 => avg.num = RowScore(SummarizedRows[1], c) * avg.den

\* three entries, one of them without analysis: happiness (0 + 5 + 9) / 3
C15_Witness ==
    /\ Summarized
    /\ Len(SummarizedRows) = 3
    /\ SummarizedRows[1].happiness_score = Null
    /\ SummarizedRows[2].happiness_score = 5
    /\ SummarizedRows[3].happiness_score = 9
    /\ last.body.mood_averages.happiness = Fraction(14, 3)

\* the number of rows whose overall_sentiment counts under `label`, a row
\* with no overall_sentiment counting as neutral
LabelCount(rows, label) ==
    Cardinality({i \in 1..Len(rows) :
                    \/ rows[i].overall_sentiment = label
                    \/ label = "neutral" /\ rows[i].overall_sentiment = NullText})

\* C16: for a non-empty sequence of entries sentiment_distribution has the
\* keys positive, negative and neutral, the count under each is the number of
\* entries with that overall_sentiment, an entry with no overall_sentiment
\* counting as neutral, and the counts add up to total_entries.
C16_DistributionCounts ==
    (Summarized /\ SummarizedRows # <<>>)
    => LET dist == last.body.sentiment_distribution
       IN  /\ {"positive", "negative", "neutral"} \subseteq DOMAIN dist
           /\ \A label \in {"positive", "negative", "neutral"} :
                 dist[label] = LabelCount(SummarizedRows, label)
           /\ dist["positive"] + dist["negative"] + dist["neutral"]
                 = last.body.total_entries

\* a step in which an attempt of the wrapper failed: the wrapped function
\* raised, or connect gave up
AttemptFailed ==
    \/ db.pc = "func" /\ db'.connection = "none"
    \/ db.pc = "connect" /\ db'.pc \notin {"connect", "func"}

\* C18: a call wrapped by handle_db_errors runs the wrapped operation at most
\* 3 times, and only on an open connection; a failed attempt drops the
\* connection, so that the next attempt reconnects first; the third failure
\* in a row is raised to the handler, which answers 500; connect makes at
\* most 3 connection attempts and raises only after the third; and every
\* wrapped call comes to an end.
C18_RetryBound ==
    /\ [](/\ db.calls <= 3
          /\ db.attempt \in 0..2
          /\ db.conn_attempt \in 0..2
          /\ db.pc = "func" => db.connection = "open")
    /\ [][/\ (AttemptFailed /\ db.attempt < 2)
             => /\ db'.pc = "attempt"
                /\ db'.attempt = db.attempt + 1
                /\ db'.connection = "none"
                /\ ce' = ce
          /\ (db.pc = "attempt" /\ db' # db /\ db.connection = "none")
             => db'.pc = "connect" /\ db'.calls = db.calls
          /\ (AttemptFailed /\ db.attempt = 2)
             => /\ db'.pc = "idle"
                /\ db'.connection = "none"
                /\ ce'.pc = "idle"
                /\ last'.endpoint = "create_entry"
                /\ last'.status = 500
          /\ (db.pc = "connect" /\ db'.pc \notin {"connect", "func"})
             => db.conn_attempt = 2]_vars
    /\ (db.pc # "idle") ~> (db.pc = "idle")

\* the wrapped INSERT was run three times, failed three times, and the
\* request was answered 500
C18_Witness ==
    /\ db.pc = "idle"
    /\ db.calls = 3
    /\ db.connection = "none"
    /\ last.endpoint = "create_entry"
    /\ last.status = 500

\* C19: when no create_entry is in progress, every journal entry has exactly
\* one mood analysis row, also after requests that ended in an error.
C19_OneAnalysisPerEntry ==
    ce.pc = "idle"
    => \A e \in journal_entries :
          Cardinality({ma \in mood_analysis : ma.entry_id = e.id}) = 1

\* C21: no operation sets is_premium back to false and the gate does not
\* look at premium_until: a premium user's gate is true at every later time,
\* also after premium_until, and a login of a premium user with the right
\* password is let in.
C21_PremiumNeverLapses ==
    /\ [](\A u \in users :
             u.is_premium = 1 => Truthy(check_user_trial_status(u.id)))
    /\ [][/\ \A u \in users :
                u.is_premium = 1 => \E v \in users' : v.id = u.id /\ v.is_premium = 1
          /\ (/\ Answered("login")
              /\ last'.user_id # 0
              /\ UserRow(last'.user_id).is_premium = 1)
             => last'.status = 200]_vars

\* a premium user logged in after premium_until and after the trial
C21_Witness ==
    /\ last.endpoint = "login"
    /\ last.status = 200
    /\ \E u \in users : /\ u.id = last.user_id
                         /\ u.is_premium = 1
                         /\ u.premium_until # Null
                         /\ now > u.premium_until
                         /\ now - u.trial_start_date > 14

\* max(0, 14 - days_since_trial) for the caller of the request just answered
ClaimedDaysRemaining ==
    LET days == now - UserRow(last'.user_id).trial_start_date
    IN  IF 14 - days > 0 THEN 14 - days ELSE 0

\* C22: for every user and every elapsed time GET /user/status and
\* GET /subscription/status both report days_remaining = max(0, 14 -
\* days_since_trial), a figure from 0 to 14, so the two never disagree.
C22_DaysRemainingAgree ==
    [][(Answered("get_user_status") \/ Answered("get_subscription_status"))
       => /\ last'.status = 200
          /\ last'.body.days_remaining = ClaimedDaysRemaining
          /\ last'.body.days_remaining \in 0..14]_vars

\* /subscription/status answered a premium user long after the trial: 0 days
C22_Witness ==
    /\ last.endpoint = "get_subscription_status"
    /\ last.status = 200
    /\ last.body.days_remaining = 0
    /\ last.body.is_premium = 1
    /\ now - UserRow(last.user_id).trial_start_date > 14

\* the payment endpoints are open to a user who holds an unexpired token or
\* whom login gives one
CanReachPayment(user_id) ==
    \/ HasToken(user_id)
    \/ Truthy(check_user_trial_status(user_id))

\* C25: a registered user who is not premium and whose trial has run out can
\* still become premium by their own requests (login, payment initialize,
\* payment verify), also without an unexpired token: the user holds a token
\* or login lets them in.
C25_ExpiredCanUpgrade ==
    \A u \in users :
       (u.is_premium = 0 /\ now - u.trial_start_date > 14) => CanReachPayment(u.id)

\* C26: GET /subscription/status reports trial_expired = true exactly when
\* more than 14 days have passed since trial_start_date: true for a user who
\* is not premium and whose gate is false, false on day 14.
C26_TrialExpiredFlag ==
    [][Answered("get_subscription_status")
       => /\ last'.status = 200
          /\ last'.body.trial_expired
             = (now - UserRow(last'.user_id).trial_start_date > 14)]_vars

\* C24: under the schema of init_database every column that the gate's
\* SELECT, initialize_payment's INSERT and verify_payment's two UPDATEs name
\* exists in its table, so that each of these statements, where a request
\* runs it, runs without a persistence error.
C24_ColumnsExist ==
    /\ "gate" \in Range(last.trace) => KnownColumns(GateColumns, UsersColumns)
    /\ "insert_payment" \in Range(last.trace)
       => KnownColumns(InsertPaymentColumns, PaymentsColumns)
    /\ "update_payments" \in Range(last.trace)
       => KnownColumns(UpdatePaymentColumns, PaymentsColumns)
    /\ "update_users" \in Range(last.trace)
       => KnownColumns(UpdateUserColumns, UsersColumns)

\* the entries of the caller of the request last answered
OwnEntries == {e \in journal_entries : e.user_id = last.user_id}

\* the k newest of them (entries of one day have one analysis, so that it
\* does not matter which of them the LIMIT keeps)
NewestOwn(k) ==
    {e \in OwnEntries :
        Cardinality({f \in OwnEntries :
                        \/ f.created_at > e.created_at
                        \/ f.created_at = e.created_at /\ f.id > e.id}) < k}

AnalysisOf(e) == CHOOSE ma \in mood_analysis : ma.entry_id = e.id

RECURSIVE HappinessSum(_)
HappinessSum(entries) ==
    IF entries = {} THEN 0
    ELSE LET e == CHOOSE x \in entries : TRUE
         IN  AnalysisOf(e).happiness_score + HappinessSum(entries \ {e})

\* C23: GET /journal/entries called by U returns only entries of U, each
\* once, newest first, the 50 newest when U has more; GET /mood/summary
\* called by U aggregates the 30 newest entries of U and no entry of another
\* user, whatever the other users wrote.
C23_OwnEntriesOnly ==
    /\ (last.endpoint = "get_entries" /\ last.status = 200)
       => LET rows == last.body.entries
              n == Len(rows)
          IN  /\ \A i \in 1..n : /\ rows[i].user_id = last.user_id
                                  /\ rows[i].id \in {e.id : e \in OwnEntries}
              /\ \A i, j \in 1..n :
                    /\ i < j => rows[i].created_at >= rows[j].created_at
                    /\ i # j => rows[i].id # rows[j].id
              /\ n <= 50
              /\ n = IF Cardinality(OwnEntries) < 50 THEN Cardinality(OwnEntries) ELSE 50
              /\ \A e \in OwnEntries :
                    e.id \notin {rows[i].id : i \in 1..n}
                    => \A i \in 1..n : rows[i].created_at >= e.created_at
              /\ last.body.total = n
    /\ (last.endpoint = "get_mood_summary" /\ last.status = 200)
       => LET k == IF Cardinality(OwnEntries) < 30 THEN Cardinality(OwnEntries) ELSE 30
              summary == last.body.mood_summary
          IN  /\ last.body.recent_entries = k
              /\ k = 0 => summary = PyNone
              /\ k > 0
                 => /\ summary.total_entries = k
                    /\ \A label \in {"positive", "negative", "neutral"} :
                          summary.sentiment_distribution[label]
                             = Cardinality({e \in NewestOwn(30) :
                                   AnalysisOf(e).overall_sentiment = label})
                    /\ summary.mood_averages.happiness
                          = Fraction(HappinessSum(NewestOwn(30)), k)

\* a user with 51 entries was listed 50, beside an entry of another user
C23_Witness ==
    /\ last.endpoint = "get_entries"
    /\ last.status = 200
    /\ Len(last.body.entries) = 50
    /\ Cardinality(OwnEntries) = 51
    /\ \E e \in journal_entries : e.user_id # last.user_id

====
